------------------------------ MODULE Spec2Model ------------------------------
(***************************************************************************)
(* A model of the indico-comrak crate (src/indico-comrak/src/lib.rs):      *)
(*   - substitute_url, the URL template substitution;                      *)
(*   - add_links, the autolink injector that rewrites the parsed tree;     *)
(*   - plain_text_formatter, the callback of the plain-text renderer;      *)
(*   - to_html of the Python adapter (src/indico-md-py/src/lib.rs), which  *)
(*     builds the rules from a HashMap and runs the conversion.            *)
(* Strings are sequences of one-character strings, so that str::replace,   *)
(* str::starts_with and slicing are computed as the code computes them.    *)
(***************************************************************************)
EXTENDS Integers, Sequences, FiniteSets, TLC

VARIABLES
    \* substitute_url
    s_url, s_groups, s_res, s_pc,
    \* add_links
    doc0, tree, rules, order, scan_i, in_html_link, to_process, proc_i, pc,
    \* plain_text_formatter
    open, user, emitted, event, r_pc,
    \* to_html of the Python adapter
    py_map, py_order, py_built, py_parsed, py_out, py_pc

s_vars == <<s_url, s_groups, s_res, s_pc>>
l_vars == <<doc0, tree, rules, order, scan_i, in_html_link, to_process,
            proc_i, pc>>
r_vars == <<open, user, emitted, event, r_pc>>
p_vars == <<py_map, py_order, py_built, py_parsed, py_out, py_pc>>
vars == <<s_vars, l_vars, r_vars, p_vars>>

-----------------------------------------------------------------------------
(* Strings *)

\* Option<String>
None == [some |-> FALSE, str |-> <<>>]
Some(s) == [some |-> TRUE, str |-> s]

RECURSIVE Concat(_)
Concat(ss) == IF ss = <<>> THEN <<>> ELSE Head(ss) \o Concat(Tail(ss))

\* s[from..to] of Rust with 0-based byte offsets, from <= to <= Len(s)
Slice(s, from, to) == SubSeq(s, from + 1, to)

\* str::starts_with
StartsWith(s, prefix) ==
    /\ Len(prefix) <= Len(s)
    /\ SubSeq(s, 1, Len(prefix)) = prefix

\* str::replace: every non-overlapping occurrence of `from`, left to right
RECURSIVE Replace(_, _, _)
Replace(s, from, to) ==
    IF Len(s) < Len(from) THEN s
    ELSE IF StartsWith(s, from)
         THEN to \o Replace(SubSeq(s, Len(from) + 1, Len(s)), from, to)
         ELSE <<Head(s)>> \o Replace(Tail(s), from, to)

Digit(d) == CASE d = 0 -> "0" [] d = 1 -> "1" [] d = 2 -> "2" [] d = 3 -> "3"
              [] d = 4 -> "4" [] d = 5 -> "5" [] d = 6 -> "6" [] d = 7 -> "7"
              [] d = 8 -> "8" [] d = 9 -> "9"

\* the decimal text of n, as format!("{}", n) writes it
RECURSIVE DecStr(_)
DecStr(n) == IF n < 10 THEN <<Digit(n)>>
             ELSE DecStr(n \div 10) \o <<Digit(n % 10)>>

\* format!("{{{}}}", n)
Marker(n) == <<"{">> \o DecStr(n) \o <<"}">>

-----------------------------------------------------------------------------
(* substitute_url *)

\* groups are indexed from 1 here: groups[n + 1] is the code's groups[n]
SubstStep(res, groups, n) ==
    IF groups[n + 1].some THEN Replace(res, Marker(n), groups[n + 1].str) ELSE res

RECURSIVE SubstFrom(_, _, _)
SubstFrom(res, groups, n) ==
    IF n >= Len(groups) THEN res
    ELSE SubstFrom(SubstStep(res, groups, n), groups, n + 1)

substitute_url(url, groups) == SubstFrom(url, groups, 0)

\* Bounds of the inputs of substitute_url
MaxPieces == 3
MaxGroups == 2

TplPieces == { Marker(0), Marker(1), Marker(2), <<"a">>, <<"{">>, <<"}">> }
GroupVals == { None, Some(<<>>), Some(<<"a">>), Some(<<"1">>), Some(Marker(1)) }

SeqsUpTo(S, n) == UNION { [1..k -> S] : k \in 0..n }

Templates == { Concat(ps) : ps \in SeqsUpTo(TplPieces, MaxPieces) }
GroupLists == SeqsUpTo(GroupVals, MaxGroups)

SubstIdle ==
    /\ s_url = <<>> /\ s_groups = <<>> /\ s_res = <<>> /\ s_pc = "idle"

InitSubst ==
    /\ s_url \in Templates
    /\ s_groups \in GroupLists
    /\ s_res = <<>>
    /\ s_pc = "call"

SubstCall ==
    /\ s_pc = "call"
    /\ s_res' = substitute_url(s_url, s_groups)
    /\ s_pc' = "done"
    /\ UNCHANGED <<s_url, s_groups, l_vars, r_vars, p_vars>>

-----------------------------------------------------------------------------
(* The parsed tree: comrak's arena of nodes.  A node is its index in the     *)
(* arena; parent 0 is "no parent".                                          *)

NodeVal(kind, lit, url, title) ==
    [kind |-> kind, lit |-> lit, url |-> url, title |-> title]
TextNode(s) == NodeVal("Text", s, <<>>, <<>>)
HtmlNode(s) == NodeVal("HtmlInline", s, <<>>, <<>>)
LinkNode(url, title) == NodeVal("Link", <<>>, url, title)
PlainNode(kind) == NodeVal(kind, <<>>, <<>>, <<>>)

EmptyTree == [value |-> <<>>, parent |-> <<>>, children |-> <<>>]

\* Arena::alloc: a new node with no parent and no children
Alloc(T, val) ==
    [value |-> Append(T.value, val),
     parent |-> Append(T.parent, 0),
     children |-> Append(T.children, <<>>)]

LastId(T) == Len(T.value)

RemoveElem(seq, x) == SelectSeq(seq, LAMBDA y : y # x)

\* Node::detach: unlink the node from its parent and siblings
Detach(T, n) ==
    IF T.parent[n] = 0 THEN T
    ELSE [T EXCEPT !.children[T.parent[n]] = RemoveElem(@, n),
                   !.parent[n] = 0]

\* Node::append: the child becomes the LAST child of par
AppendChild(T, par, n) ==
    LET D == Detach(T, n)
    IN  [D EXCEPT !.children[par] = Append(@, n), !.parent[n] = par]

AllocAppend(T, par, val) == AppendChild(Alloc(T, val), par, LastId(T) + 1)

\* Node::descendants: the node and its descendants, in document (pre-) order
RECURSIVE Descendants(_, _)
RECURSIVE DescendantsOfAll(_, _)
Descendants(T, n) == <<n>> \o DescendantsOfAll(T, T.children[n])
DescendantsOfAll(T, ns) ==
    IF ns = <<>> THEN <<>>
    ELSE Descendants(T, Head(ns)) \o DescendantsOfAll(T, Tail(ns))

\* The text of the document, in document order
RECURSIVE TextOfAll(_, _)
TextOfAll(T, ns) ==
    IF ns = <<>> THEN <<>>
    ELSE (IF T.value[Head(ns)].kind = "Text" THEN T.value[Head(ns)].lit ELSE <<>>)
         \o TextOfAll(T, Tail(ns))
TextContent(T) == TextOfAll(T, Descendants(T, 1))

\* A slip of has_link_ancestor: only the node itself is looked at
has_link_ancestor_self_only(T, n) == T.value[n].kind = "Link"

\* Check whether the node or any ancestor of it is a link
RECURSIVE has_link_ancestor(_, _)
has_link_ancestor(T, n) ==
    IF T.value[n].kind = "Link" THEN TRUE
    ELSE IF T.parent[n] = 0 THEN FALSE
         ELSE has_link_ancestor(T, T.parent[n])

-----------------------------------------------------------------------------
(* Link rules.  The compiled regex of a rule is modelled by a literal       *)
(* pattern with capture groups at fixed places of the match: caps[k] is     *)
(* group k, [some, off, len] relative to the start of the match; a group    *)
(* with some = FALSE does not participate.                                  *)

Cap(off, len) == [some |-> TRUE, off |-> off, len |-> len]
NoCap == [some |-> FALSE, off |-> 0, len |-> 0]

LinkRule(pat, caps, url) == [pat |-> pat, caps |-> caps, url |-> url]

\* F -> "u{0}";  (B)(x)? -> "v{1}{2}";  FB -> "w"
RuleF == LinkRule(<<"F">>, <<>>, <<"u">> \o Marker(0))
RuleB == LinkRule(<<"B">>, <<Cap(0, 1), NoCap>>, <<"v">> \o Marker(1) \o Marker(2))
RuleFB == LinkRule(<<"F", "B">>, <<>>, <<"w">>)
Rules == {RuleF, RuleB, RuleFB}

\* Regex::captures_iter on a literal: the leftmost, non-overlapping
\* occurrences of pat in t at or after pos, as 0-based start offsets
RECURSIVE FindAllFrom(_, _, _)
FindAllFrom(pat, t, pos) ==
    IF pos + Len(pat) > Len(t) THEN <<>>
    ELSE IF Slice(t, pos, pos + Len(pat)) = pat
         THEN <<pos>> \o FindAllFrom(pat, t, pos + Len(pat))
         ELSE FindAllFrom(pat, t, pos + 1)

\* capture.iter(): group 0 is the whole match, then the rule's groups;
\* each participating group as [some, start, end]
CaptureSpans(rule, pos) ==
    <<[some |-> TRUE, start |-> pos, end |-> pos + Len(rule.pat)]>> \o
    [k \in 1..Len(rule.caps) |->
        [some |-> rule.caps[k].some,
         start |-> pos + rule.caps[k].off,
         end |-> pos + rule.caps[k].off + rule.caps[k].len]]

SetMin(S) == CHOOSE x \in S : \A y \in S : x <= y
SetMax(S) == CHOOSE x \in S : \A y \in S : x >= y

\* One match record ((start, end), url, groups) of a capture
MatchRecord(rule, t, pos) ==
    LET spans == CaptureSpans(rule, pos)
        part == {k \in 1..Len(spans) : spans[k].some}
    IN  [start |-> SetMin({spans[k].start : k \in part}),
         end |-> SetMax({spans[k].end : k \in part}),
         url |-> rule.url,
         groups |-> [k \in 1..Len(spans) |->
                        IF spans[k].some
                        THEN Some(Slice(t, spans[k].start, spans[k].end))
                        ELSE None]]

RuleMatches(rule, t) ==
    LET found == FindAllFrom(rule.pat, t, 0)
    IN  [i \in 1..Len(found) |-> MatchRecord(rule, t, found[i])]

\* The matches of every rule, in rule order and then in match order
RECURSIVE CollectMatches(_, _)
CollectMatches(rs, t) ==
    IF rs = <<>> THEN <<>>
    ELSE RuleMatches(Head(rs), t) \o CollectMatches(Tail(rs), t)

\* A slip of the deferral: every text node is deferred
ShouldDeferAlways(matches) == TRUE

\* `if !matches.is_empty()`: only a node with a match is deferred
ShouldDefer(matches) == matches # <<>>

-----------------------------------------------------------------------------
(* add_links, second loop: the rewrite of one deferred text node.  A result *)
(* with ok = FALSE is a panic (a slice whose start is past its end, or an   *)
(* unwrap of None); its tree is the tree as the panic leaves it.            *)

Panicked(T) == [tree |-> T, ok |-> FALSE]
Returned(T) == [tree |-> T, ok |-> TRUE]

\* `for ((start, end), url, capture_groups) in &matches { ... }`
RECURSIVE SpliceFrom(_, _, _, _, _, _)
SpliceFrom(T, par, text, matches, i, prev_end) ==
    IF i > Len(matches) THEN Returned(T)
    ELSE LET m == matches[i]
         IN  IF prev_end > m.start
             THEN Panicked(T)    \* text[prev_end..*start] with prev_end > start
             ELSE LET T1 == AllocAppend(T, par,
                                TextNode(Slice(text, prev_end, m.start)))
                      T2 == Alloc(T1, LinkNode(substitute_url(m.url, m.groups),
                                               Slice(text, m.start, m.end)))
                      link == LastId(T2)
                      T3 == AllocAppend(T2, link,
                                TextNode(Slice(text, m.start, m.end)))
                      T4 == AppendChild(T3, par, link)
                  IN  SpliceFrom(T4, par, text, matches, i + 1, m.end)

\* A slip of the trailing check: the trailing Text is always appended
NeedsTrailingAlways(last_end, text) == TRUE

\* `if last_end != text.len()`
NeedsTrailing(last_end, text) == last_end # Len(text)

\* The body of the second loop for a node that has no link ancestor
RewriteNode(T, e) ==
    LET par == T.parent[e.node]
    IN  IF par = 0 THEN Panicked(T)              \* node.parent().unwrap()
        ELSE LET S == SpliceFrom(Detach(T, e.node), par, e.text, e.matches, 1, 0)
             IN  IF ~S.ok THEN S
                 ELSE IF e.matches = <<>>
                      THEN Panicked(S.tree)      \* matches.last().unwrap()
                      ELSE LET last_end == e.matches[Len(e.matches)].end
                           IN  IF NeedsTrailing(last_end, e.text)
                               THEN Returned(AllocAppend(S.tree, par,
                                      TextNode(Slice(e.text, last_end, Len(e.text)))))
                               ELSE S

-----------------------------------------------------------------------------
(* The documents add_links is run on: a Document with one Paragraph whose   *)
(* inline children are drawn from InlineItems; an item is a leaf inside a   *)
(* (possibly empty) chain of wrappers.                                      *)

MaxInl == 3

Texts == { <<"F", "B">>, <<"-", "F", "-">> }
HtmlLits == { <<"<", "a", " ", "h", ">">>, <<"<", "A", " ", "h", ">">>,
              <<"<", "/", "a", ">">> }

InlineItem(wrap, leaf) == [wrap |-> wrap, leaf |-> leaf]

InlineItems ==
    { InlineItem(<<>>, TextNode(t)) : t \in Texts }
    \cup { InlineItem(<<>>, HtmlNode(h)) : h \in HtmlLits }
    \cup { InlineItem(w, TextNode(<<"F", "B">>)) :
             w \in { <<LinkNode(<<"w">>, <<>>)>>,
                     <<PlainNode("Emph")>>,
                     <<LinkNode(<<"w">>, <<>>), PlainNode("Emph")>> } }

RECURSIVE AddItem(_, _, _)
AddItem(T, par, item) ==
    IF item.wrap = <<>> THEN AllocAppend(T, par, item.leaf)
    ELSE AddItem(AllocAppend(T, par, Head(item.wrap)), LastId(T) + 1,
                 InlineItem(Tail(item.wrap), item.leaf))

RECURSIVE AddItems(_, _, _)
AddItems(T, par, items) ==
    IF items = <<>> THEN T
    ELSE AddItems(AddItem(T, par, Head(items)), par, Tail(items))

MkDoc(items) ==
    AddItems(AllocAppend(Alloc(EmptyTree, PlainNode("Document")), 1,
                         PlainNode("Paragraph")), 2, items)

IsPlainText(item) == item.wrap = <<>> /\ item.leaf.kind = "Text"

\* The parser merges adjacent text nodes: no two Text siblings are adjacent
Docs ==
    { MkDoc(items) :
        items \in { is \in SeqsUpTo(InlineItems, MaxInl) :
                      \A k \in 1..(Len(is) - 1) :
                          ~(IsPlainText(is[k]) /\ IsPlainText(is[k + 1])) } }

\* The rule lists: up to MaxRules different rules, in any order
MaxRules == 2
RuleLists ==
    { rs \in SeqsUpTo(Rules, MaxRules) :
        \A i, j \in 1..Len(rs) : i # j => rs[i] # rs[j] }

-----------------------------------------------------------------------------
(* add_links as a state machine: one step per node of the first loop, one   *)
(* step per deferred node of the second loop.                               *)

LinksIdle ==
    /\ doc0 = EmptyTree /\ tree = EmptyTree /\ rules = <<>> /\ order = <<>>
    /\ scan_i = 0 /\ in_html_link = FALSE /\ to_process = <<>> /\ proc_i = 0
    /\ pc = "idle"

InitLinks ==
    /\ doc0 \in Docs
    /\ tree = doc0
    /\ rules \in RuleLists
    /\ order = Descendants(doc0, 1)
    /\ scan_i = 1
    /\ in_html_link = FALSE
    /\ to_process = <<>>
    /\ proc_i = 1
    /\ pc = "scan"

ScanNode == order[scan_i]

\* The end of one iteration of the first loop
ScanAdvance(deferred) ==
    /\ scan_i' = scan_i + 1
    /\ pc' = IF scan_i < Len(order) THEN "scan"
             ELSE IF deferred = <<>> THEN "done" ELSE "rewrite"

\* A text node inside a raw HTML link: `continue`
ScanTextInHtmlLink ==
    /\ pc = "scan"
    /\ tree.value[ScanNode].kind = "Text"
    /\ in_html_link
    /\ ScanAdvance(to_process)
    /\ UNCHANGED <<doc0, tree, rules, order, in_html_link, to_process, proc_i, s_vars, r_vars, p_vars>>

\* A text node: collect the matches of every rule and defer the node
ScanText ==
    /\ pc = "scan"
    /\ tree.value[ScanNode].kind = "Text"
    /\ ~in_html_link
    /\ LET t == tree.value[ScanNode].lit
           matches == CollectMatches(rules, t)
           deferred == IF ShouldDefer(matches)
                       THEN Append(to_process,
                              [node |-> ScanNode, text |-> t, matches |-> matches])
                       ELSE to_process
       IN  /\ to_process' = deferred
           /\ ScanAdvance(deferred)
    /\ UNCHANGED <<doc0, tree, rules, order, in_html_link, proc_i, s_vars, r_vars, p_vars>>

\* Inline HTML: keep track of any open <a> tag
ScanHtmlInline ==
    /\ pc = "scan"
    /\ tree.value[ScanNode].kind = "HtmlInline"
    /\ LET content == tree.value[ScanNode].lit
       IN  in_html_link' =
             IF StartsWith(content, <<"<", "a", " ">>) THEN TRUE
             ELSE IF StartsWith(content, <<"<", "/", "a", ">">>) THEN FALSE
                  ELSE in_html_link
    /\ ScanAdvance(to_process)
    /\ UNCHANGED <<doc0, tree, rules, order, to_process, proc_i, s_vars, r_vars, p_vars>>

ScanOther ==
    /\ pc = "scan"
    /\ tree.value[ScanNode].kind \notin {"Text", "HtmlInline"}
    /\ ScanAdvance(to_process)
    /\ UNCHANGED <<doc0, tree, rules, order, in_html_link, to_process, proc_i, s_vars, r_vars, p_vars>>

\* The end of one iteration of the second loop
RewriteAdvance ==
    /\ proc_i' = proc_i + 1
    /\ pc' = IF proc_i < Len(to_process) THEN "rewrite" ELSE "done"

\* A deferred node whose ancestor is a link: `continue`
RewriteSkip ==
    /\ pc = "rewrite"
    /\ has_link_ancestor(tree, to_process[proc_i].node)
    /\ RewriteAdvance
    /\ UNCHANGED <<doc0, tree, rules, order, scan_i, in_html_link, to_process, s_vars, r_vars, p_vars>>

\* A deferred node: detach it and append the Text and Link nodes
Rewrite ==
    /\ pc = "rewrite"
    /\ ~has_link_ancestor(tree, to_process[proc_i].node)
    /\ LET R == RewriteNode(tree, to_process[proc_i])
       IN  /\ tree' = R.tree
           /\ IF R.ok THEN RewriteAdvance
              ELSE pc' = "panic" /\ proc_i' = proc_i
    /\ UNCHANGED <<doc0, rules, order, scan_i, in_html_link, to_process, s_vars, r_vars, p_vars>>

NextLinks ==
    \/ ScanTextInHtmlLink \/ ScanText \/ ScanHtmlInline \/ ScanOther
    \/ RewriteSkip \/ Rewrite

-----------------------------------------------------------------------------
(* plain_text_formatter: the callback the plain-text renderer runs on every *)
(* node, once entering and once leaving.  A call returns what it writes     *)
(* (out), the list stack (user), the ChildRendering it answers (cr) and     *)
(* whether it returned (ok = FALSE is a panic).                             *)

Result(out, usr, cr, ok) == [out |-> out, user |-> usr, cr |-> cr, ok |-> ok]

Spaces(n) == [k \in 1..n |-> " "]          \* " ".repeat(n)
NL == <<"\n">>

\* Context::escape
RECURSIVE Escape(_)
Escape(s) ==
    IF s = <<>> THEN <<>>
    ELSE (CASE Head(s) = "<" -> <<"&", "l", "t", ";">>
            [] Head(s) = ">" -> <<"&", "g", "t", ";">>
            [] Head(s) = "&" -> <<"&", "a", "m", "p", ";">>
            [] OTHER -> <<Head(s)>>) \o Escape(Tail(s))

LowerChar(c) == CASE c = "A" -> "a" [] c = "B" -> "b" [] c = "P" -> "p"
                  [] c = "R" -> "r" [] OTHER -> c
to_lowercase(s) == [k \in 1..Len(s) |-> LowerChar(s[k])]

IsWs(c) == c \in {" ", "\t", "\n"}
At(s, k) == IF k \in 1..Len(s) THEN s[k] ELSE ""

RECURSIVE SkipWs(_, _)
SkipWs(s, k) == IF IsWs(At(s, k)) THEN SkipWs(s, k + 1) ELSE k

\* Regex <\s*br\s*\/?> matching somewhere in s
br_re_is_match(s) ==
    \E k \in 1..Len(s) :
        /\ s[k] = "<"
        /\ LET b == SkipWs(s, k + 1)
               e == SkipWs(s, b + 2)
           IN  /\ At(s, b) = "b" /\ At(s, b + 1) = "r"
               /\ \/ At(s, e) = ">"
                  \/ At(s, e) = "/" /\ At(s, e + 1) = ">"

\* Regex <\s*p(?:\s[^>]*)?> matching somewhere in s
p_open_re_is_match(s) ==
    \E k \in 1..Len(s) :
        /\ s[k] = "<"
        /\ LET q == SkipWs(s, k + 1)
           IN  /\ At(s, q) = "p"
               /\ \/ At(s, q + 1) = ">"
                  \/ /\ IsWs(At(s, q + 1))
                     /\ \E g \in (q + 2)..Len(s) : s[g] = ">"

FormatCode(usr, node, entering) ==
    Result(IF entering THEN Escape(node.lit) ELSE <<>>, usr, "HTML", TRUE)

FormatCodeBlock(usr, node, entering) ==
    Result(IF entering THEN NL \o Escape(node.lit) \o NL ELSE <<>>,
           usr, "HTML", TRUE)

FormatHtmlInline(usr, node, entering) ==
    LET html == to_lowercase(node.lit)
    IN  Result(IF ~entering THEN <<>>
               ELSE IF br_re_is_match(html) THEN <<"<", "b", "r", " ", "/", ">">>
               ELSE IF p_open_re_is_match(html) THEN <<"<", "p", ">">>
               ELSE IF html = <<"<", "/", "p", ">">> THEN <<"<", "/", "p", ">">>
               ELSE <<>>,
               usr, "HTML", TRUE)

\* comrak::html::format_node_default for Text, Paragraph and LineBreak; a
\* Paragraph writes no tag when it is in a tight list (node.tight)
format_node_default(usr, node, entering) ==
    Result(CASE node.kind = "Text" -> IF entering THEN Escape(node.lit) ELSE <<>>
             [] node.kind = "Paragraph" ->
                  IF node.tight THEN <<>>
                  ELSE IF entering THEN <<"<", "p", ">">>
                       ELSE <<"<", "/", "p", ">", "\n">>
             [] node.kind = "LineBreak" ->
                  IF entering THEN <<"<", "b", "r", " ", "/", ">", "\n">> ELSE <<>>,
           usr, "HTML", TRUE)

\* Strong, Emph, Strikethrough, Highlight, Superscript, BlockQuote
FormatDecoration(usr, node, entering) == Result(<<>>, usr, "HTML", TRUE)

\* A slip of the stack: leaving a list does not pop its counter
ListPopForgotten(usr) == usr

ListPush(usr) == Append(usr, 1)
ListPop(usr) == IF usr = <<>> THEN usr ELSE SubSeq(usr, 1, Len(usr) - 1)

FormatList(usr, node, entering) ==
    Result(NL, IF entering THEN ListPush(usr) ELSE ListPop(usr), "HTML", TRUE)

DelimStr(delim) == IF delim = "Period" THEN <<".">> ELSE <<")">>

\* A slip of the counting: leaving an item does not count it
ItemCountForgotten(usr) == usr

\* `if let Some(v) = context.user.last_mut() { *v += 1 }`
ItemCount(usr) ==
    IF usr = <<>> THEN usr ELSE [usr EXCEPT ![Len(usr)] = @ + 1]

FormatItem(usr, node, entering) ==
    IF entering
    THEN LET indent == Spaces(2 * Len(usr))
         IN  IF node.ordered /\ usr = <<>>
             THEN Result(indent, usr, "HTML", FALSE)   \* last().unwrap()
             ELSE LET item_spec ==
                          IF node.ordered
                          THEN DecStr(usr[Len(usr)]) \o DelimStr(node.delim)
                          ELSE <<node.bullet_char>>
                  IN  IF node.padding < Len(item_spec)
                      THEN \* lst.padding - item_spec.len() underflows
                           Result(indent \o item_spec, usr, "HTML", FALSE)
                      ELSE Result(indent \o item_spec
                                    \o Spaces(node.padding - Len(item_spec)),
                                  usr, "HTML", TRUE)
    ELSE Result(NL, ItemCount(usr), "HTML", TRUE)

\* A slip of the last arm: the children are skipped
FormatOtherSkip(usr, node, entering) == Result(<<>>, usr, "Skip", TRUE)

\* `_ => Ok(ChildRendering::HTML)`
FormatOther(usr, node, entering) == Result(<<>>, usr, "HTML", TRUE)

DefaultKinds == {"Text", "Paragraph", "LineBreak"}
DecorationKinds == {"Emph", "BlockQuote"}
OtherKinds == {"Document", "Link", "Heading"}

plain_text_formatter(usr, node, entering) ==
    CASE node.kind = "Code" -> FormatCode(usr, node, entering)
      [] node.kind = "CodeBlock" -> FormatCodeBlock(usr, node, entering)
      [] node.kind = "HtmlInline" -> FormatHtmlInline(usr, node, entering)
      [] node.kind \in DefaultKinds -> format_node_default(usr, node, entering)
      [] node.kind \in DecorationKinds -> FormatDecoration(usr, node, entering)
      [] node.kind = "List" -> FormatList(usr, node, entering)
      [] node.kind = "Item" -> FormatItem(usr, node, entering)
      [] OTHER -> FormatOther(usr, node, entering)

-----------------------------------------------------------------------------
(* The renderer's traversal (comrak's format_document_with_formatter): every *)
(* node is entered, its children are visited when the callback answered     *)
(* ChildRendering::HTML, and it is left.  `open` is the path of the nodes   *)
(* entered and not yet left; the nodes themselves are the input, drawn as   *)
(* the traversal reaches them.                                              *)

MaxDepth == 5
MaxItems == 3
MaxPadding == 4
MaxLongItems == 100

RNode(kind) ==
    [kind |-> kind, lit |-> <<>>, ordered |-> FALSE, delim |-> "Period",
     bullet_char |-> "*", start |-> 1, padding |-> 0, tight |-> FALSE,
     nitems |-> 0,
     cr |-> "HTML"]

CodeLits == { <<"<", "c">> }
RHtmlLits == { <<"<", "B", "R", "/", ">">>, <<"<", "p", " ", "x", ">">>,
               <<"<", "/", "p", ">">>, <<"<", "b", ">">> }

\* The lists of the model are tight, as those of the tests are; an ordered
\* list starts at the number of its first source marker
Lists ==
    { [RNode("List") EXCEPT !.ordered = TRUE, !.delim = d, !.start = n,
                            !.tight = TRUE] :
        d \in {"Period", "Paren"}, n \in {1, 7} }
    \cup { [RNode("List") EXCEPT !.bullet_char = b, !.tight = TRUE] :
        b \in {"*", "-"} }

\* An item carries its list's type, delimiter and bullet, and the width of
\* its own source marker: at least the marker and one space
Items(lst) ==
    { [lst EXCEPT !.kind = "Item", !.padding = p, !.nitems = 0] :
        p \in (IF lst.ordered THEN 3 ELSE 2)..MaxPadding }

Blocks(par) ==
    { [RNode("Paragraph") EXCEPT !.tight = (par.kind = "Item" /\ par.tight)],
      RNode("BlockQuote"), RNode("Heading") }
    \cup { [RNode("CodeBlock") EXCEPT !.lit = c] : c \in CodeLits }
    \cup Lists

Inlines ==
    { [RNode("Text") EXCEPT !.lit = <<"t">>], RNode("LineBreak"),
      RNode("Emph"), RNode("Link") }
    \cup { [RNode("Code") EXCEPT !.lit = c] : c \in CodeLits }
    \cup { [RNode("HtmlInline") EXCEPT !.lit = h] : h \in RHtmlLits }

\* A list has up to MaxItems items; a list of the document's top level can
\* be long, up to MaxLongItems items, those after the MaxItems-th being empty
ItemsLeft(par) ==
    \/ par.nitems < MaxItems
    \/ Len(open) = 2 /\ par.nitems < MaxLongItems

\* The nodes that can be the next child of the innermost open node
NextChildren ==
    IF open = <<>> THEN { RNode("Document") }
    ELSE LET par == open[Len(open)]
         IN  CASE par.kind \in {"Document", "BlockQuote"} -> Blocks(par)
               [] par.kind = "Item" ->
                    IF open[Len(open) - 1].nitems > MaxItems THEN {}
                    ELSE Blocks(par)
               [] par.kind = "List" ->
                    IF ItemsLeft(par) THEN Items(par) ELSE {}
               [] par.kind \in {"Paragraph", "Heading", "Emph", "Link"} -> Inlines
               [] OTHER -> {}

PlainIdle ==
    /\ open = <<>> /\ user = <<>> /\ emitted = <<>> /\ r_pc = "idle"
    /\ event = [kind |-> "none", entering |-> FALSE]

\* format_document_with_formatter(..., plain_text_formatter, Vec::new())
InitPlain ==
    /\ open = <<>>
    /\ user = <<>>
    /\ emitted = <<>>
    /\ event = [kind |-> "none", entering |-> FALSE]
    /\ r_pc = "run"

\* The callback runs on `node`, entering
EnterNode(node) ==
    /\ r_pc = "run"
    /\ Len(open) < MaxDepth
    /\ open # <<>> => open[Len(open)].cr = "HTML"
    /\ LET r == plain_text_formatter(user, node, TRUE)
           path == IF node.kind = "Item"
                   THEN [open EXCEPT ![Len(open)].nitems = @ + 1]
                   ELSE open
       IN  /\ user' = r.user
           /\ emitted' = r.out
           /\ open' = Append(path, [node EXCEPT !.cr = r.cr])
           /\ r_pc' = IF r.ok THEN "run" ELSE "panic"
    /\ event' = [kind |-> node.kind, entering |-> TRUE]
    /\ UNCHANGED <<s_vars, l_vars, p_vars>>

\* The callback runs on the innermost open node, leaving
LeaveNode ==
    /\ r_pc = "run"
    /\ open # <<>>
    /\ LET node == open[Len(open)]
           r == plain_text_formatter(user, node, FALSE)
       IN  /\ node.kind = "List" => node.nitems > 0
           /\ user' = r.user
           /\ emitted' = r.out
           /\ event' = [kind |-> node.kind, entering |-> FALSE]
           /\ r_pc' = IF ~r.ok THEN "panic"
                      ELSE IF Len(open) = 1 THEN "done" ELSE "run"
    /\ open' = SubSeq(open, 1, Len(open) - 1)
    /\ UNCHANGED <<s_vars, l_vars, p_vars>>

Top == open[Len(open)]

EnterCode == \E node \in NextChildren : node.kind = "Code" /\ EnterNode(node)
LeaveCode == open # <<>> /\ Top.kind = "Code" /\ LeaveNode

EnterCodeBlock ==
    \E node \in NextChildren : node.kind = "CodeBlock" /\ EnterNode(node)
LeaveCodeBlock == open # <<>> /\ Top.kind = "CodeBlock" /\ LeaveNode

EnterHtmlInline ==
    \E node \in NextChildren : node.kind = "HtmlInline" /\ EnterNode(node)
LeaveHtmlInline == open # <<>> /\ Top.kind = "HtmlInline" /\ LeaveNode

EnterDefault ==
    \E node \in NextChildren : node.kind \in DefaultKinds /\ EnterNode(node)
LeaveDefault == open # <<>> /\ Top.kind \in DefaultKinds /\ LeaveNode

EnterDecoration ==
    \E node \in NextChildren : node.kind \in DecorationKinds /\ EnterNode(node)
LeaveDecoration == open # <<>> /\ Top.kind \in DecorationKinds /\ LeaveNode

EnterList == \E node \in NextChildren : node.kind = "List" /\ EnterNode(node)
LeaveList == open # <<>> /\ Top.kind = "List" /\ LeaveNode

EnterItem == \E node \in NextChildren : node.kind = "Item" /\ EnterNode(node)
LeaveItem == open # <<>> /\ Top.kind = "Item" /\ LeaveNode

EnterOther ==
    \E node \in NextChildren : node.kind \in OtherKinds /\ EnterNode(node)
LeaveOther == open # <<>> /\ Top.kind \in OtherKinds /\ LeaveNode

NextPlain ==
    \/ EnterCode \/ LeaveCode \/ EnterCodeBlock \/ LeaveCodeBlock
    \/ EnterHtmlInline \/ LeaveHtmlInline \/ EnterDefault \/ LeaveDefault
    \/ EnterDecoration \/ LeaveDecoration \/ EnterList \/ LeaveList
    \/ EnterItem \/ LeaveItem \/ EnterOther \/ LeaveOther

-----------------------------------------------------------------------------
(* LinkRule::new.  Regex::new is modelled on the patterns of the model: a   *)
(* pattern whose parentheses do not balance does not compile, and the error *)
(* carries the compiler's message; any other pattern compiles to a literal  *)
(* with its capture groups at fixed places.                                 *)

RECURSIVE GroupError(_, _)
GroupError(re, depth) ==
    IF re = <<>> THEN (IF depth > 0 THEN "unclosed group" ELSE "")
    ELSE IF Head(re) = "(" THEN GroupError(Tail(re), depth + 1)
    ELSE IF Head(re) = ")"
         THEN (IF depth = 0 THEN "unopened group"
               ELSE GroupError(Tail(re), depth - 1))
         ELSE GroupError(Tail(re), depth)

\* The pattern (B)(x)? of RuleB, as the caller writes it
SrcB == <<"(", "B", ")", "(", "x", ")", "?">>

\* Regex::new
Regex_new(re) ==
    LET err == GroupError(re, 0)
    IN  IF err # "" THEN [ok |-> FALSE, err |-> err, pat |-> <<>>, caps |-> <<>>]
        ELSE IF re = SrcB
             THEN [ok |-> TRUE, err |-> "", pat |-> RuleB.pat, caps |-> RuleB.caps]
             ELSE [ok |-> TRUE, err |-> "", pat |-> re, caps |-> <<>>]

\* LinkRule::new: `Regex::new(regex).map_err(LinkRuleError)?`
LinkRule_new(regex, url) ==
    LET r == Regex_new(regex)
    IN  IF r.ok THEN [ok |-> TRUE, err |-> "", rule |-> LinkRule(r.pat, r.caps, url)]
        ELSE [ok |-> FALSE, err |-> r.err, rule |-> LinkRule(<<>>, <<>>, <<>>)]

-----------------------------------------------------------------------------
(* to_html of the Python adapter.  The caller's dict arrives as a           *)
(* HashMap<String, String>; `.iter()` visits its entries in an order that   *)
(* the hasher of that one map decides (std's RandomState takes new keys for *)
(* every map), so each call draws its own order.  The rules are collected   *)
(* into a Result, which stops at the first error; only then is the markdown *)
(* parsed and add_links run.  A panic of the conversion reaches the caller  *)
(* as an exception.                                                         *)

MaxCalls == 2

\* The entries a dict can hold: the three rules and two patterns that do
\* not compile
PyEntries ==
    { [regex |-> RuleF.pat, url |-> RuleF.url],
      [regex |-> SrcB, url |-> RuleB.url],
      [regex |-> RuleFB.pat, url |-> RuleFB.url],
      [regex |-> <<"(">>, url |-> <<"w">>],
      [regex |-> <<")">>, url |-> <<"w">>] }

PyMaps == { m \in SUBSET PyEntries : Cardinality(m) <= MaxRules }

\* The orders in which the entries of a map can be visited
IterOrders(m) ==
    { o \in SeqsUpTo(m, Cardinality(m)) :
        /\ Len(o) = Cardinality(m)
        /\ \A i, j \in 1..Len(o) : i # j => o[i] # o[j] }

\* What a call gives its caller
Outcome(kind, msg, T) ==
    [kind |-> kind, msg |-> msg, tree |-> T, parsed |-> py_parsed]

PyIdle ==
    /\ py_map = {} /\ py_order = <<>> /\ py_built = <<>>
    /\ py_parsed = FALSE /\ py_out = <<>> /\ py_pc = "idle"

\* The markdown (its parse, doc0) and the dict the caller calls to_html with
InitPy ==
    /\ doc0 \in Docs
    /\ tree = EmptyTree /\ rules = <<>> /\ order = <<>>
    /\ scan_i = 0 /\ in_html_link = FALSE /\ to_process = <<>> /\ proc_i = 0
    /\ pc = "idle"
    /\ py_map \in PyMaps
    /\ py_order = <<>> /\ py_built = <<>>
    /\ py_parsed = FALSE /\ py_out = <<>> /\ py_pc = "ready"

\* The arena and the rules are dropped when the call returns
PyDrop ==
    /\ tree' = EmptyTree /\ rules' = <<>> /\ order' = <<>>
    /\ scan_i' = 0 /\ in_html_link' = FALSE /\ to_process' = <<>> /\ proc_i' = 0
    /\ pc' = "idle"
    /\ py_order' = <<>> /\ py_built' = <<>> /\ py_parsed' = FALSE
    /\ py_pc' = "ready"

\* to_html(md_source, link_rules=..., nl2br=...): the dict becomes a HashMap
PyCall ==
    /\ py_pc = "ready"
    /\ Len(py_out) < MaxCalls
    /\ \E o \in IterOrders(py_map) : py_order' = o
    /\ py_built' = <<>>
    /\ py_parsed' = FALSE
    /\ py_pc' = "collect"
    /\ UNCHANGED <<py_map, py_out, s_vars, l_vars, r_vars>>

PyNextEntry == py_order[Len(py_built) + 1]

\* `.map(|(re, url)| LinkRule::new(re, url))`, an entry that compiles
PyBuildRule ==
    /\ py_pc = "collect"
    /\ Len(py_built) < Len(py_order)
    /\ LET r == LinkRule_new(PyNextEntry.regex, PyNextEntry.url)
       IN  /\ r.ok
           /\ py_built' = Append(py_built, r.rule)
    /\ UNCHANGED <<py_map, py_order, py_parsed, py_out, py_pc, s_vars, l_vars, r_vars>>

\* `.collect::<Result<_, _>>().map_err(PyValueError::new_err(..))?`: the
\* first entry that does not compile ends the call
PyInvalidPattern ==
    /\ py_pc = "collect"
    /\ Len(py_built) < Len(py_order)
    /\ LET r == LinkRule_new(PyNextEntry.regex, PyNextEntry.url)
       IN  /\ ~r.ok
           /\ py_out' = Append(py_out, Outcome("ValueError", r.err, EmptyTree))
    /\ PyDrop
    /\ UNCHANGED <<py_map, doc0, s_vars, r_vars>>

\* indico_markdown_to_html(md_source, &rules, nl2br): parse_document, then
\* add_links starts
PyConvert ==
    /\ py_pc = "collect"
    /\ Len(py_built) = Len(py_order)
    /\ py_parsed' = TRUE
    /\ tree' = doc0
    /\ rules' = py_built
    /\ order' = Descendants(doc0, 1)
    /\ scan_i' = 1
    /\ in_html_link' = FALSE
    /\ to_process' = <<>>
    /\ proc_i' = 1
    /\ pc' = "scan"
    /\ py_pc' = "convert"
    /\ UNCHANGED <<py_map, py_order, py_built, py_out, doc0, s_vars, r_vars>>

\* add_links returned: the tree is formatted and the HTML returned (the HTML
\* is a function of the tree, which stands for it here)
PyReturnHtml ==
    /\ py_pc = "convert"
    /\ pc = "done"
    /\ py_out' = Append(py_out, Outcome("Html", "", tree))
    /\ PyDrop
    /\ UNCHANGED <<py_map, doc0, s_vars, r_vars>>

\* add_links panicked: the caller gets an exception and no HTML
PyPanic ==
    /\ py_pc = "convert"
    /\ pc = "panic"
    /\ py_out' = Append(py_out, Outcome("Panic", "", EmptyTree))
    /\ PyDrop
    /\ UNCHANGED <<py_map, doc0, s_vars, r_vars>>

NextPy ==
    \/ PyCall \/ PyBuildRule \/ PyInvalidPattern \/ PyConvert
    \/ NextLinks
    \/ PyReturnHtml \/ PyPanic

-----------------------------------------------------------------------------
(* Specifications *)

InitSubstOnly == InitSubst /\ LinksIdle /\ PlainIdle /\ PyIdle
SpecSubst == InitSubstOnly /\ [][SubstCall]_vars

InitLinksOnly == InitLinks /\ SubstIdle /\ PlainIdle /\ PyIdle
SpecLinks == InitLinksOnly /\ [][NextLinks]_vars

InitPlainOnly == InitPlain /\ SubstIdle /\ LinksIdle /\ PyIdle
SpecPlain == InitPlainOnly /\ [][NextPlain]_vars

InitPyOnly == InitPy /\ SubstIdle /\ PlainIdle
SpecPy == InitPyOnly /\ [][NextPy]_vars

Init == InitSubstOnly \/ InitLinksOnly \/ InitPlainOnly \/ InitPyOnly
Next == SubstCall \/ NextLinks \/ NextPlain \/ NextPy
Spec == Init /\ [][Next]_vars

-----------------------------------------------------------------------------
(* Properties of substitute_url (SpecSubst) *)

Contains(s, sub) == \E k \in 0..(Len(s) - Len(sub)) : Slice(s, k, k + Len(sub)) = sub

\* The groups (0-based) that are present
Present(groups) == { n \in 0..(Len(groups) - 1) : groups[n + 1].some }

\* The template with each marker of a present group replaced by that
\* group's text, in one pass over the template: what is inserted is not
\* looked at again
RECURSIVE SimSubst(_, _)
SimSubst(t, groups) ==
    IF t = <<>> THEN <<>>
    ELSE LET hit == { n \in Present(groups) : StartsWith(t, Marker(n)) }
         IN  IF hit = {} THEN <<Head(t)>> \o SimSubst(Tail(t), groups)
             ELSE LET n == CHOOSE n \in hit : TRUE
                  IN  groups[n + 1].str
                        \o SimSubst(SubSeq(t, Len(Marker(n)) + 1, Len(t)), groups)

\* C6: the result of substitute_url is the template with every occurrence of
\* a present group's marker {n} replaced by that group's text, and with every
\* other marker (absent group, index beyond the list) and every other
\* character left as it is; a template without markers is returned unchanged.
C6_MarkersReplacedByGroupText ==
    s_pc = "done" => s_res = SimSubst(s_url, s_groups)

\* C7: when the text substituted for group i holds a marker {j} of a later
\* present group j, that inserted {j} is still in the result: text put in by
\* an earlier replacement is not scanned by a later one.
C7_InsertedMarkerStays ==
    s_pc = "done" =>
        \A i, j \in Present(s_groups) :
            ( /\ i < j
              /\ Contains(s_url, Marker(i))
              /\ Contains(s_groups[i + 1].str, Marker(j)) )
            => Contains(s_res, Marker(j))

-----------------------------------------------------------------------------
(* Properties of add_links (SpecLinks) *)

N0 == Len(doc0.value)                 \* the nodes the parser made
IsNew(n) == n > N0                    \* a node add_links allocated

RECURSIVE AncestorsOrSelf(_, _)
AncestorsOrSelf(T, n) ==
    {n} \cup (IF T.parent[n] = 0 THEN {} ELSE AncestorsOrSelf(T, T.parent[n]))

\* The node is a semantic Link or lies under one
UnderLink(T, n) == \E a \in AncestorsOrSelf(T, n) : T.value[a].kind = "Link"

Occurs(pat, t) == Contains(t, pat)

\* No rule matches any text node of the document
NoRuleMatches(T, rs) ==
    \A n \in 1..Len(T.value) :
        T.value[n].kind = "Text" =>
            \A k \in 1..Len(rs) : ~Occurs(rs[k].pat, T.value[n].lit)

\* An opening anchor tag in any form: <a>, <a ...>, any letter case
IsOpenAnchor(c) ==
    /\ Len(c) >= 3
    /\ c[1] = "<" /\ LowerChar(c[2]) = "a"
    /\ (IsWs(c[3]) \/ c[3] = ">")

IsCloseAnchor(c) ==
    /\ Len(c) >= 4
    /\ c[1] = "<" /\ c[2] = "/" /\ LowerChar(c[3]) = "a"
    /\ (IsWs(c[4]) \/ c[4] = ">")

\* The number of raw anchors open after the first k nodes of the document
\* order (a closing tag without an opening one closes nothing)
RECURSIVE AnchorDepth(_, _, _)
AnchorDepth(T, ord, k) ==
    IF k = 0 THEN 0
    ELSE LET d == AnchorDepth(T, ord, k - 1)
             v == T.value[ord[k]]
         IN  IF v.kind # "HtmlInline" THEN d
             ELSE IF IsOpenAnchor(v.lit) THEN d + 1
             ELSE IF IsCloseAnchor(v.lit) /\ d > 0 THEN d - 1
             ELSE d

PositionOf(ord, n) == CHOOSE k \in 1..Len(ord) : ord[k] = n

InRawAnchor(n) == AnchorDepth(doc0, order, PositionOf(order, n)) > 0

\* C1: add_links runs to completion on every document and every rule list:
\* it never panics.
C1_NeverPanics == pc # "panic"

\* The children of par the parser made that are still its children
Survivors(T, par) == SelectSeq(T.children[par], LAMBDA c : ~IsNew(c))
StillChild(par) == SelectSeq(doc0.children[par], LAMBDA c : tree.parent[c] = par)

\* C2: after the pass the replacement nodes stand where the rewritten text
\* node stood: the text of the document, read in document order, is what it
\* was before the pass, and the other children of every parent keep their
\* relative order.
C2_SplicedInPlace ==
    pc = "done" =>
        /\ TextContent(tree) = TextContent(doc0)
        /\ \A par \in 1..N0 : Survivors(tree, par) = StillChild(par)

\* C3: a text node that is, or lies under, a semantic Link is never
\* rewritten: no Link made by add_links has a Link ancestor, and every text
\* node under a Link of the parsed document stays attached, unchanged, at its
\* place among its siblings.
C3_NoRewriteUnderLink ==
    /\ \A n \in 1..Len(tree.value) :
          (IsNew(n) /\ tree.value[n].kind = "Link" /\ tree.parent[n] # 0)
              => ~UnderLink(tree, tree.parent[n])
    /\ \A n \in 1..N0 :
          (doc0.value[n].kind = "Text" /\ UnderLink(doc0, n))
              => /\ tree.value[n] = doc0.value[n]
                 /\ tree.parent[n] = doc0.parent[n]
                 /\ tree.children[tree.parent[n]] = doc0.children[doc0.parent[n]]

\* C3's case: the pass is over, a text node under a Link matched a rule and
\* was deferred, and another text node was rewritten into a Link
C3_Witness ==
    /\ pc = "done"
    /\ \E k \in 1..Len(to_process) : UnderLink(doc0, to_process[k].node)
    /\ \E n \in 1..Len(tree.value) : IsNew(n) /\ tree.value[n].kind = "Link"

\* C4: no text node between an opening raw anchor tag (in any form) and its
\* closing tag is put on the rewrite list.
C4_NoDeferInsideRawAnchor ==
    \A k \in 1..Len(to_process) : ~InRawAnchor(to_process[k].node)

\* The recorded matches are in ascending position order and do not overlap
Ascending(ms) == \A i, j \in 1..Len(ms) : i < j => ms[i].end <= ms[j].start

\* The deferred node the second loop has just dealt with
LastDone == to_process[proc_i - 1]
JustRewrote ==
    /\ pc \in {"rewrite", "done"}
    /\ proc_i >= 2
    /\ ~UnderLink(doc0, LastDone.node)

\* The j-th node of the sequence that replaces a text node with text t and
\* matches ms: Text, Link, Text, Link, ..., and a last Text after the last
\* match when it does not end the string
HasTrailing(t, ms) == ms[Len(ms)].end # Len(t)
ExpectedLen(t, ms) == 2 * Len(ms) + (IF HasTrailing(t, ms) THEN 1 ELSE 0)
IsExpected(T, n, t, ms, j) ==
    LET i == (j + 1) \div 2
    IN  IF j = 2 * Len(ms) + 1
        THEN /\ T.value[n] = TextNode(Slice(t, ms[Len(ms)].end, Len(t)))
             /\ T.children[n] = <<>>
        ELSE IF j % 2 = 1
        THEN /\ T.value[n] =
                  TextNode(Slice(t, IF i = 1 THEN 0 ELSE ms[i - 1].end, ms[i].start))
             /\ T.children[n] = <<>>
        ELSE /\ T.value[n] = LinkNode(substitute_url(ms[i].url, ms[i].groups),
                                      Slice(t, ms[i].start, ms[i].end))
             /\ Len(T.children[n]) = 1
             /\ T.value[T.children[n][1]] = TextNode(Slice(t, ms[i].start, ms[i].end))
             /\ T.children[T.children[n][1]] = <<>>

\* C5: a rewritten text node whose matches are ascending and do not overlap
\* is detached, and its parent's last children are Text(before m1), Link(m1),
\* Text(between), ..., Link(mk) and a trailing Text exactly when mk does not
\* end the string; each Link has the substituted URL, the matched text as
\* title and one Text child with the matched text; the text of the sequence
\* is the text of the node.
C5_ReplacementSequence ==
    (JustRewrote /\ Ascending(LastDone.matches)) =>
        LET e == LastDone
            par == doc0.parent[e.node]
            ch == tree.children[par]
            len == ExpectedLen(e.text, e.matches)
            new == SubSeq(ch, Len(ch) - len + 1, Len(ch))
        IN  /\ tree.parent[e.node] = 0
            /\ \A k \in 1..Len(ch) : ch[k] # e.node
            /\ Len(ch) >= len
            /\ \A j \in 1..len : IsNew(new[j]) /\ IsExpected(tree, new[j], e.text, e.matches, j)
            /\ TextOfAll(tree, DescendantsOfAll(tree, new)) = e.text

\* C5's case: a text node with matches of two rules, ascending, was rewritten
\* and its last match ends the string
C5_Witness ==
    /\ JustRewrote
    /\ Ascending(LastDone.matches)
    /\ Len(LastDone.matches) >= 2
    /\ \E i, j \in 1..Len(LastDone.matches) :
          LastDone.matches[i].url # LastDone.matches[j].url
    /\ ~HasTrailing(LastDone.text, LastDone.matches)

\* C8: when no rule matches any text node of the document, add_links leaves
\* the tree as the parser made it and does not panic.
C8_NoMatchNoChange ==
    NoRuleMatches(doc0, rules) => (tree = doc0 /\ pc # "panic")

\* C8's case: the pass is over with rules given, a text node outside every
\* link and raw anchor was looked at, and nothing matched
C8_Witness ==
    /\ pc = "done"
    /\ rules # <<>>
    /\ NoRuleMatches(doc0, rules)
    /\ \E n \in 1..N0 :
          /\ doc0.value[n].kind = "Text"
          /\ ~UnderLink(doc0, n)
          /\ ~InRawAnchor(n)

-----------------------------------------------------------------------------
(* Properties of plain_text_formatter (SpecPlain) *)

RECURSIVE StripSpaces(_)
StripSpaces(s) ==
    IF s # <<>> /\ Head(s) = " " THEN StripSpaces(Tail(s)) ELSE s

\* The callback has just run on an Item of an ordered list, entering
EnteredOrderedItem ==
    /\ event = [kind |-> "Item", entering |-> TRUE]
    /\ Len(open) >= 2
    /\ Top.kind = "Item"
    /\ Top.ordered

\* The lists on the path, outermost first
OpenLists == SelectSeq(open, LAMBDA nd : nd.kind = "List")

\* C9: the n-th item of an ordered list is written with the number n and the
\* list's delimiter, whatever its source marker; n counts the items of that
\* list alone, so a nested list starts at 1 and the enclosing list goes on
\* with its own number.
C9_ItemNumberIsItsIndex ==
    EnteredOrderedItem =>
        LET lst == open[Len(open) - 1]
            marker == DecStr(lst.nitems)
                        \o (IF lst.delim = "Period" THEN <<".">> ELSE <<")">>)
        IN  /\ lst.kind = "List"
            /\ StartsWith(StripSpaces(emitted), marker)

\* C9's case: the second item of an ordered list nested in the second item
\* of an ordered list is entered
C9_Witness ==
    /\ EnteredOrderedItem
    /\ r_pc = "run"
    /\ Len(OpenLists) = 2
    /\ OpenLists[1].ordered /\ OpenLists[1].nitems = 2
    /\ OpenLists[2].ordered /\ OpenLists[2].nitems = 2

\* The node kinds of the last arm that the claim names
NamedOtherKinds == {"Link", "Heading"}

\* C10 as stated: the children of a node of any other kind (a Link, a
\* Heading) are not rendered: the callback never runs below such a node.
C10_ChildrenSuppressed ==
    \A k \in 1..(Len(open) - 1) : open[k].kind \notin NamedOtherKinds

\* C10 as amended: on a node of any other kind the callback writes nothing,
\* entering and leaving, and answers ChildRendering::HTML, so the children
\* of the node are rendered.
C10_OtherKindsWriteNothing ==
    /\ event.kind \in OtherKinds => emitted = <<>>
    /\ \A k \in 1..Len(open) :
          open[k].kind \in OtherKinds => open[k].cr = "HTML"

\* C10's case: a Text inside a Link has been entered and its text written
C10_Witness ==
    /\ event = [kind |-> "Text", entering |-> TRUE]
    /\ Len(open) >= 2
    /\ open[Len(open) - 1].kind = "Link"
    /\ emitted # <<>>

-----------------------------------------------------------------------------
(* Properties of to_html of the Python adapter (SpecPy) *)

\* The entries of the dict that do not compile
BadEntries == { e \in py_map : GroupError(e.regex, 0) # "" }

\* C11: two calls of to_html with the same markdown, the same dict of two or
\* more rules and the same nl2br give the same outcome (the same HTML, or
\* the same error).
C11_SameInputsSameOutcome ==
    (Cardinality(py_map) >= 2 /\ Len(py_out) >= 2) => py_out[1] = py_out[2]

\* C12: a call ends in an error exactly when a rule of the dict does not
\* compile: then the outcome is the invalid-pattern error with the compiler's
\* message of such a rule and the markdown was not parsed; when every rule
\* compiles the outcome is an HTML string.
C12_OnlyRuleErrors ==
    \A k \in 1..Len(py_out) :
        IF BadEntries # {}
        THEN /\ py_out[k].kind = "ValueError"
             /\ py_out[k].msg \in { GroupError(e.regex, 0) : e \in BadEntries }
             /\ ~py_out[k].parsed
        ELSE py_out[k].kind = "Html"

\* The part of C12 about rule construction alone: a dict with a rule that
\* does not compile always ends in the invalid-pattern error, before any
\* parsing
C12_EagerRuleErrors ==
    \A k \in 1..Len(py_out) :
        BadEntries # {} =>
            /\ py_out[k].kind = "ValueError"
            /\ py_out[k].msg \in { GroupError(e.regex, 0) : e \in BadEntries }
            /\ ~py_out[k].parsed

-----------------------------------------------------------------------------
(* Properties of the list stack and of the item padding (SpecPlain) *)

\* The callback has just run on an Item, entering
EnteredItem ==
    /\ event = [kind |-> "Item", entering |-> TRUE]
    /\ Len(open) >= 2
    /\ Top.kind = "Item"

\* The marker the item is written with: its bullet, or its number in its
\* list and the delimiter
ItemMarker ==
    IF Top.ordered
    THEN DecStr(open[Len(open) - 1].nitems) \o DelimStr(Top.delim)
    ELSE <<Top.bullet_char>>

\* C13: on entering an Item the renderer writes the indentation, the marker
\* and then (padding - length of the marker) spaces, and that number is never
\* negative: the marker written is never longer than the item's padding, for
\* a list of any length.
C13_PaddingNeverUnderflows ==
    EnteredItem =>
        /\ Len(ItemMarker) <= Top.padding
        /\ r_pc # "panic"
        /\ emitted = Spaces(2 * Len(OpenLists)) \o ItemMarker
                       \o Spaces(Top.padding - Len(ItemMarker))

\* C14: the list stack has one counter per List entered and not yet left;
\* it is not empty when an Item is entered, the item is indented by 2 spaces
\* per open list, every counter is at least 1, and the stack is empty when
\* the render call has ended.
C14_ListStack ==
    /\ Len(user) = Len(OpenLists)
    /\ \A k \in 1..Len(user) : user[k] >= 1
    /\ EnteredItem =>
          /\ user # <<>>
          /\ StartsWith(emitted, Spaces(2 * Len(OpenLists)))
          /\ At(emitted, 2 * Len(OpenLists) + 1) \notin {" ", ""}
    /\ r_pc = "done" => user = <<>>

\* C14's case: an item of a list nested in the second (or a later) item of
\* a list is entered
C14_Witness ==
    /\ EnteredItem
    /\ r_pc = "run"
    /\ Len(user) = 2
    /\ user[1] >= 2
    /\ ~Top.ordered

=============================================================================
